---- MODULE Spec2Model ----
(***************************************************************************)
(* Model of the exam-question extraction pipeline (smart_importer.py) and  *)
(* of the session's file queue that drives it (app.py).                    *)
(*                                                                         *)
(* Text is a sequence of characters.  TLA+ strings are ASCII, so every     *)
(* CJK character is written as one string holding its romanisation; the    *)
(* character it stands for is given in the comment next to it.             *)
(***************************************************************************)
EXTENDS Integers, Sequences, FiniteSets, TLC

\* ------------------------------------------------------------------ bounds
\* Longest array of numbered items the model service answers with.
MaxItems == 3
\* Most embedded images of a Word file put in the session's file queue.
MaxDocxImages == 1
\* Longest array the model service answers with during a session.
MaxAppItems == 1
\* Most pages (or embedded images) of a document handed to a direct call.
MaxParsePages == 2
\* Most lines of a text handed to the fallback segmenter.
MaxLines == 3
\* Most questions imported into the pool during a session.
MaxPool == 2

\* Pages per model call announced by the comment at the batch construction.
BatchSize == 5

\* --------------------------------------------------------------- constants
\* PHYSICS_CHAPTERS_LIST: "ch0" is the Unclassified entry (未分類), "ch1" to
\* "ch6" are the six chapters, in list order.
PHYSICS_CHAPTERS_LIST == <<"ch0", "ch1", "ch2", "ch3", "ch4", "ch5", "ch6">>

\* EXCLUDE_KEYWORDS, in list order.
EXCLUDE_KEYWORDS ==
    << <<"hua", "xue">>,                       \* 化學
       <<"fan", "ying", "shi">>,               \* 反應式
       <<"you", "ji", "hua", "he", "wu">>,     \* 有機化合物
       <<"suan", "jian">>,                     \* 酸鹼
       <<"chen", "dian">>,                     \* 沉澱
       <<"yang", "hua", "huan", "yuan">>,      \* 氧化還原
       <<"mo", "er_ear">>,                     \* 莫耳
       <<"yuan", "zi", "liang">>,              \* 原子量
       <<"sheng", "wu">>,                      \* 生物
       <<"xi", "bao">>,                        \* 細胞
       <<"yi", "chuan">>,                      \* 遺傳
       <<"D", "N", "A">>,                      \* DNA
       <<"ran", "se", "ti">>,                  \* 染色體
       <<"yan", "hua">>,                       \* 演化
       <<"sheng", "tai">>,                     \* 生態
       <<"guang", "he", "zuo", "yong">>,       \* 光合作用
       <<"jiao", "su">>,                       \* 酵素
       <<"di", "ke">>,                         \* 地科
       <<"di", "zhi">>,                        \* 地質
       <<"ban", "kuai">>,                      \* 板塊
       <<"yang_sea", "liu">>,                  \* 洋流
       <<"da", "qi">>,                         \* 大氣
       <<"qi", "hou">>,                        \* 氣候
       <<"yan_rock", "shi_stone">>,            \* 岩石
       <<"hua", "shi_stone">>,                 \* 化石
       <<"xing", "xi_sys">>,                   \* 星系
       <<"di", "ceng">> >>                     \* 地層

\* The model identifiers tried for every batch, in priority order.
candidate_models ==
    <<"gemini-2.5-flash", "gemini-2.5-pro", "gemini-2.0-flash", "gemini-1.5-pro">>

\* -------------------------------------------------------------------- text
Range(s) == {s[i] : i \in 1..Len(s)}

\* str.lower() on one character: only the cased (Latin) letters change.
LowerChar(c) ==
    CASE c = "D" -> "d"
      [] c = "N" -> "n"
      [] c = "A" -> "a"
      [] OTHER -> c

\* str.lower()
Lower(s) == [i \in 1..Len(s) |-> LowerChar(s[i])]

\* `sub in s' for two strings
Contains(s, sub) ==
    \E i \in 0..(Len(s) - Len(sub)) :
        \A j \in 1..Len(sub) : s[i + j] = sub[j]

\* sep.join(parts)
RECURSIVE JoinText(_, _)
JoinText(parts, sep) ==
    IF Len(parts) = 0 THEN <<>>
    ELSE IF Len(parts) = 1 THEN parts[1]
    ELSE parts[1] \o sep \o JoinText(Tail(parts), sep)

\* "; ".join(errors) on message strings
RECURSIVE JoinMessages(_)
JoinMessages(msgs) ==
    IF Len(msgs) = 0 THEN ""
    ELSE IF Len(msgs) = 1 THEN msgs[1]
    ELSE msgs[1] \o "; " \o JoinMessages(Tail(msgs))

\* ------------------------------------------------------- model output (JSON)
\* A question number as the model reports it: a JSON integer, a JSON string
\* of digits, a JSON string that is no number, a JSON float (v is the value
\* in tenths) or null.
JInt(k) == [t |-> "int", v |-> k]
JDigits(k) == [t |-> "digits", v |-> k]
JFloat(tenths) == [t |-> "float", v |-> tenths]
JWord == [t |-> "word", v |-> 0]
JNull == [t |-> "null", v |-> 0]
\* A JSON true or false: Python's bool, a subclass of int worth 1 or 0.
JBool(b) == [t |-> "bool", v |-> IF b THEN 1 ELSE 0]

\* A bounding box as the model reports it: null, a list of integers, or a
\* list of four entries that are not all numbers (BadBox).
NoBox == [kind |-> "null", v |-> <<>>]
Box(v) == [kind |-> "list", v |-> v]
BadBox == [kind |-> "badlist", v |-> <<0, 0, 0, 0>>]

\* int(x): the integer, the parsed digits, the float truncated; a string that
\* is no number (ValueError) and None (TypeError) raise.
IntRaises(n) == n.t \in {"word", "null"}
IntOf(n) == IF n.t = "float" THEN n.v \div 10 ELSE n.v

\* One element of the parsed array.  obj = FALSE is an element that is no
\* JSON object (a string, a number); keys are the fields the object holds,
\* and an absent field holds the filler given in NoFields.
NoFields ==
    [obj |-> TRUE, keys |-> {}, content |-> <<>>, options |-> <<>>,
     type |-> "", number |-> JNull, chapter |-> "",
     page_index |-> JNull, box_2d |-> NoBox, full_question_box_2d |-> NoBox,
     sub_questions |-> <<>>]
NonObject == [NoFields EXCEPT !.obj = FALSE]

\* dict.get(key, default)
Get(item, key, default) == IF key \in item.keys THEN item[key] ELSE default

\* ------------------------------------------------------ SmartQuestionCandidate
\* Mutant: the chapter of the model is stored as it came.
SmartQuestionCandidate_NoCoerce(raw_text, question_number, options, chapter, image_bytes, q_type, ref_image_bytes, full_page_bytes, sub_questions) ==
    [number |-> question_number,
     content |-> raw_text,
     options |-> options,
     predicted_chapter |-> chapter,
     image_bytes |-> image_bytes,
     ref_image_bytes |-> ref_image_bytes,
     full_page_bytes |-> full_page_bytes,
     q_type |-> q_type,
     sub_questions |-> sub_questions]

\* SmartQuestionCandidate.__init__, on the fields the application reads.
SmartQuestionCandidate(raw_text, question_number, options, chapter, image_bytes, q_type, ref_image_bytes, full_page_bytes, sub_questions) ==
    [number |-> question_number,
     content |-> raw_text,
     options |-> options,
     predicted_chapter |->
         IF chapter \in Range(PHYSICS_CHAPTERS_LIST) THEN chapter ELSE "ch0",
     image_bytes |-> image_bytes,
     ref_image_bytes |-> ref_image_bytes,
     full_page_bytes |-> full_page_bytes,
     q_type |-> q_type,
     sub_questions |-> sub_questions]

\* ------------------------------------------------------------------- images
\* The size of a page image: an A4 page rendered at 150 dpi.
PageWidth == 1240
PageHeight == 1754

\* Encoded image bytes: none, a whole page, or the crop of a page.  rect is
\* (left, top, right, bottom) in thousandths of a pixel.
NoBytes == [kind |-> "none", page |-> 0, rect |-> <<>>]
img_to_bytes(pil_img) == [kind |-> "page", page |-> pil_img, rect |-> <<>>]
Cropped(original_img, rect) == [kind |-> "crop", page |-> original_img, rect |-> rect]

Max(a, b) == IF a < b THEN b ELSE a
Min(a, b) == IF a < b THEN a ELSE b

\* ymin = max(0, ymin - padding_y); ymax = min(1000, ymax + padding_y)
PaddedYMin(ymin, padding_y) == Max(0, ymin - padding_y)
PaddedYMax(ymax, padding_y) == Min(1000, ymax + padding_y)

\* An image is named by a number: the pages of a document are 1, 2, ...,
\* and ScenarioImage is an image of 1000 x 2000 pixels.
ScenarioImage == 0
\* width, height = original_img.size
ImageSize(original_img) ==
    IF original_img = ScenarioImage THEN <<1000, 2000>>
    ELSE <<PageWidth, PageHeight>>

\* Mutant: the test for a degenerate rectangle is missing.
CropRect_NoDegenerateTest(original_img, box, force_full_width, padding_y) ==
    LET width == ImageSize(original_img)[1]
        height == ImageSize(original_img)[2]
        ymin == PaddedYMin(box[1], padding_y)
        ymax == PaddedYMax(box[3], padding_y)
        left == IF force_full_width THEN 0 ELSE Max(0, box[2] - 10) * width
        right == IF force_full_width THEN 1000 * width
                 ELSE Min(1000, box[4] + 10) * width
    IN  <<left, ymin * height, right, ymax * height>>

\* Mutant: the horizontal span follows the box also with force_full_width.
CropRect_BoxWidth(original_img, box, force_full_width, padding_y) ==
    LET width == ImageSize(original_img)[1]
        height == ImageSize(original_img)[2]
        ymin == PaddedYMin(box[1], padding_y)
        ymax == PaddedYMax(box[3], padding_y)
        left == Max(0, box[2] - 10) * width
        right == Min(1000, box[4] + 10) * width
        top == ymin * height
        bottom == ymax * height
    IN  IF right <= left \/ bottom <= top THEN <<>>
        ELSE <<left, top, right, bottom>>

\* The crop rectangle, or <<>> for a degenerate one.
CropRect(original_img, box, force_full_width, padding_y) ==
    LET width == ImageSize(original_img)[1]
        height == ImageSize(original_img)[2]
        ymin == PaddedYMin(box[1], padding_y)
        ymax == PaddedYMax(box[3], padding_y)
        left == IF force_full_width THEN 0 ELSE Max(0, box[2] - 10) * width
        right == IF force_full_width THEN 1000 * width
                 ELSE Min(1000, box[4] + 10) * width
        top == ymin * height
        bottom == ymax * height
    IN  IF right <= left \/ bottom <= top THEN <<>>
        ELSE <<left, top, right, bottom>>

\* crop_image: the bytes it returns (NoBytes is None), or raised: arithmetic
\* on an entry that is no number raises before the guarded crop.
crop_image(original_img, box_2d, force_full_width, padding_y) ==
    IF box_2d.kind = "null" \/ Len(box_2d.v) # 4
    THEN [raised |-> FALSE, bytes |-> NoBytes]
    ELSE IF box_2d.kind = "badlist"
    THEN [raised |-> TRUE, bytes |-> NoBytes]
    ELSE LET rect == CropRect(original_img, box_2d.v, force_full_width, padding_y)
         IN  IF rect = <<>>
             THEN [raised |-> FALSE, bytes |-> NoBytes]
             ELSE [raised |-> FALSE, bytes |-> Cropped(original_img, rect)]

\* ------------------------------------------------------- fallback segmenter
\* parse_raw_file: return []
parse_raw_file(file_obj, file_type, use_ocr) == <<>>

\* ------------------------------------------------------------ item handling
\* (content + " " + " ".join(options)).lower()
ContentText(item) ==
    Lower(Get(item, "content", <<>>) \o <<" ">> \o
          JoinText(Get(item, "options", <<>>), <<" ">>))

\* any(ek in content_text for ek in EXCLUDE_KEYWORDS)
IsExcluded(content_text) ==
    \E k \in 1..Len(EXCLUDE_KEYWORDS) : Contains(content_text, EXCLUDE_KEYWORDS[k])

\* The multi-select cue: 應選 together with 項, 二 or 三.
HasMultiCue(content_text) ==
    /\ Contains(content_text, <<"ying", "xuan">>)
    /\ \/ Contains(content_text, <<"xiang">>)
       \/ Contains(content_text, <<"er_two">>)
       \/ Contains(content_text, <<"san">>)

\* Mutant: the type of the model is trusted, the cue is not looked at.
DeriveType_TrustModel(item, content_text) ==
    LET reported == Get(item, "type", "Single")
    IN  IF reported # "Group" /\ Get(item, "options", <<>>) = <<>>
        THEN "Fill" ELSE reported

\* Mutant: an item with no options is Fill, a Group item too.
DeriveType_FillGroups(item, content_text) ==
    LET reported == Get(item, "type", "Single")
        cued == IF HasMultiCue(content_text) THEN "Multi" ELSE reported
    IN  IF Get(item, "options", <<>>) = <<>> THEN "Fill" ELSE cued

\* The answer type of an item: the model's, forced to Multi by the cue, then
\* forced to Fill when it is no Group and has no options.
DeriveType(item, content_text) ==
    LET reported == Get(item, "type", "Single")
        cued == IF HasMultiCue(content_text) THEN "Multi" ELSE reported
    IN  IF cued # "Group" /\ Get(item, "options", <<>>) = <<>>
        THEN "Fill" ELSE cued

\* The index of the item's page in the batch: page_index when it is an int
\* (a bool is one) inside the batch, else 0.
LocalIndex(item, batch_imgs) ==
    LET local_idx == Get(item, "page_index", JInt(0))
    IN  IF local_idx.t \notin {"int", "bool"} \/ local_idx.v < 0
           \/ local_idx.v >= Len(batch_imgs)
        THEN 0 ELSE local_idx.v

\* Mutant: the page is encoded after the crops, inside the same try block.
ItemImages_FullPageLast(item, batch_imgs, ft) ==
    LET none == [image_bytes |-> NoBytes, ref_image_bytes |-> NoBytes,
                 full_page_bytes |-> NoBytes]
    IN  IF ft # "pdf" THEN none
        ELSE
        LET src_img == batch_imgs[LocalIndex(item, batch_imgs) + 1]
            full == img_to_bytes(src_img)
            diagram == IF "box_2d" \in item.keys
                       THEN crop_image(src_img, item.box_2d, FALSE, 5)
                       ELSE [raised |-> FALSE, bytes |-> NoBytes]
            ref == IF "full_question_box_2d" \in item.keys
                   THEN crop_image(src_img, item.full_question_box_2d, TRUE, 100)
                   ELSE [raised |-> FALSE, bytes |-> full]
        IN  IF diagram.raised
            THEN none
            ELSE IF ref.raised
            THEN [none EXCEPT !.image_bytes = diagram.bytes]
            ELSE [image_bytes |-> diagram.bytes, ref_image_bytes |-> ref.bytes,
                  full_page_bytes |-> full]

\* The three images of an item.  Those of a PDF are cut from its page inside
\* a try block: what was assigned before an exception stays.
ItemImages(item, batch_imgs, ft) ==
    LET none == [image_bytes |-> NoBytes, ref_image_bytes |-> NoBytes,
                 full_page_bytes |-> NoBytes]
    IN  IF ft # "pdf" THEN none
        ELSE
        LET src_img == batch_imgs[LocalIndex(item, batch_imgs) + 1]
            full == img_to_bytes(src_img)
            diagram == IF "box_2d" \in item.keys
                       THEN crop_image(src_img, item.box_2d, FALSE, 5)
                       ELSE [raised |-> FALSE, bytes |-> NoBytes]
            ref == IF "full_question_box_2d" \in item.keys
                   THEN crop_image(src_img, item.full_question_box_2d, TRUE, 100)
                   ELSE [raised |-> FALSE, bytes |-> full]
        IN  IF diagram.raised
            THEN [none EXCEPT !.full_page_bytes = full]
            ELSE IF ref.raised
            THEN [none EXCEPT !.full_page_bytes = full,
                              !.image_bytes = diagram.bytes]
            ELSE [image_bytes |-> diagram.bytes, ref_image_bytes |-> ref.bytes,
                  full_page_bytes |-> full]

\* What the loop body does with one element: "raise" (an exception leaves the
\* loop), "skip" (dropped by the filter) or "append" (cand is appended).
ItemOutcome(item, batch_imgs, ft) ==
    IF ~item.obj THEN [act |-> "raise", cand |-> NoFields]
    ELSE LET content_text == ContentText(item)
             images == ItemImages(item, batch_imgs, ft)
         IN  IF IsExcluded(content_text)
             THEN [act |-> "skip", cand |-> NoFields]
             ELSE [act |-> "append",
                   cand |-> SmartQuestionCandidate(
                                Get(item, "content", <<>>),
                                Get(item, "number", JInt(0)),
                                Get(item, "options", <<>>),
                                Get(item, "chapter", "ch0"),
                                images.image_bytes,
                                DeriveType(item, content_text),
                                images.ref_image_bytes,
                                images.full_page_bytes,
                                Get(item, "sub_questions", <<>>))]

\* ------------------------------------------------------------------ sorting
\* list.sort(key=...): a stable sort by the key.
RECURSIVE InsertByKey(_, _)
InsertByKey(sorted, c) ==
    IF sorted = <<>> THEN <<c>>
    ELSE IF IntOf(c.number) < IntOf(sorted[1].number)
         THEN <<c>> \o sorted
         ELSE <<sorted[1]>> \o InsertByKey(Tail(sorted), c)

RECURSIVE StableSort(_)
StableSort(cands) ==
    IF cands = <<>> THEN <<>>
    ELSE InsertByKey(StableSort(SubSeq(cands, 1, Len(cands) - 1)), cands[Len(cands)])

\* Mutant: candidates of an equal number are merged into the first of them.
SortCandidates_Dedupe(cands) ==
    IF \E i \in 1..Len(cands) : IntRaises(cands[i].number)
    THEN cands
    ELSE LET sorted == StableSort(cands)
         IN  SelectSeq([i \in 1..Len(sorted) |-> [c |-> sorted[i], i |-> i]],
                       LAMBDA e : e.i = 1
                           \/ IntOf(sorted[e.i - 1].number) # IntOf(e.c.number))

\* try: all_candidates.sort(key=lambda x: int(x.number)) / except: pass.  The
\* keys are computed before anything moves, so a key that raises leaves the
\* list as it was.
SortCandidates(cands) ==
    IF \E i \in 1..Len(cands) : IntRaises(cands[i].number)
    THEN cands
    ELSE StableSort(cands)

\* ----------------------------------------------------------------- Question
\* Python's None among values written as strings, and what "if value" tests.
NoneValue == "None"
Truthy(value) == value \notin {NoneValue, ""}

\* base64.b64encode(data).decode('utf-8') and base64.b64decode(text), on the
\* image bytes of the model; decoding any other text gives no bytes here.
b64encode(bytes) ==
    IF bytes = "img" THEN "aW1n" ELSE IF bytes = "png" THEN "cG5n" ELSE ""
b64decode(text) ==
    IF text = "aW1n" THEN "img" ELSE IF text = "cG5n" THEN "png" ELSE ""

\* Question.__init__; new_id is the id made of the clock and a random number.
Question(q_type, content, options, answer, image_data, source, chapter, unit, db_id, parent_id, is_group_parent, sub_questions, image_url, source_file_id, new_id) ==
    [id |-> IF Truthy(db_id) THEN db_id ELSE new_id,
     type |-> q_type,
     source |-> source,
     chapter |-> chapter,
     unit |-> unit,
     content |-> content,
     options |-> options,
     answer |-> answer,
     image_data |-> image_data,
     image_url |-> image_url,
     parent_id |-> parent_id,
     is_group_parent |-> is_group_parent,
     sub_questions |-> sub_questions,
     source_file_id |-> source_file_id]

\* Question.to_dict: the document that is stored.
RECURSIVE to_dict(_)
to_dict(self) ==
    [id |-> self.id,
     type |-> self.type,
     source |-> self.source,
     chapter |-> self.chapter,
     content |-> self.content,
     options |-> self.options,
     answer |-> self.answer,
     image_data_b64 |-> IF Truthy(self.image_data)
                        THEN b64encode(self.image_data) ELSE NoneValue,
     image_url |-> self.image_url,
     parent_id |-> self.parent_id,
     is_group_parent |-> self.is_group_parent,
     sub_questions |-> [i \in 1..Len(self.sub_questions) |->
                           to_dict(self.sub_questions[i])],
     source_file_id |-> self.source_file_id]

\* Question.from_dict, of a document that holds every key to_dict writes: the
\* unit is not among them and is left to the default of __init__.
RECURSIVE from_dict(_, _)
from_dict(data, new_id) ==
    Question(data.type, data.content, data.options, data.answer,
             IF Truthy(data.image_data_b64)
             THEN b64decode(data.image_data_b64) ELSE NoneValue,
             data.source, data.chapter, "", data.id, data.parent_id,
             data.is_group_parent,
             [i \in 1..Len(data.sub_questions) |->
                 from_dict(data.sub_questions[i], new_id)],
             data.image_url, data.source_file_id, new_id)

\* -------------------------------------------------------------------- state
VARIABLES
    HAS_GENAI, HAS_PDF2IMAGE, HAS_DOCX,  \* the import flags of smart_importer
    file_queue,       \* st.session_state['file_queue']
    cloud_files,      \* the exam_files collection: filename -> ai_status
    pc,               \* where the running extraction call stands
    caller,           \* "direct", or the queued file process_single_file works on
    file_bytes,       \* the document: its pages (images) and whether it opens
    file_type, api_key, target_pages,    \* the other arguments of the call
    source_images, start_offset, batches,
    batch_idx, model_idx, response, last_error,
    data, item_idx,
    all_candidates, errors,
    calls,            \* history: every generate_content call of this extraction
    result,           \* what parse_with_gemini returned
    question_pool,    \* st.session_state['question_pool']
    questions,        \* the questions collection: the documents it stores
    fn_args, fn_ret   \* a utility function called on its own: arguments, return

envVars == <<HAS_GENAI, HAS_PDF2IMAGE, HAS_DOCX>>
appVars == <<file_queue, cloud_files>>
argVars == <<caller, file_bytes, file_type, api_key, target_pages>>
pageVars == <<source_images, start_offset, batches>>
loopVars == <<batch_idx, model_idx, response, last_error, data, item_idx>>
outVars == <<all_candidates, errors, calls, result>>
bankVars == <<question_pool, questions>>
vars == <<envVars, appVars, pc, argVars, pageVars, loopVars, outVars, bankVars, fn_args, fn_ret>>

\* A response of generate_content.  raw is response.text as a sequence of
\* tokens: "w" a word of prose, "ws" white space, "fence_json" and "fence"
\* the markers of a code fence (three backquotes, followed by json or not),
\* the brackets, braces and commas of JSON, "s" the scalar members
\* of an object, "k" the key of an array-valued member and "e" a scalar
\* element.  items are the objects the text spells out, in their order, and
\* pre and post the prose around them; text names the shape of the response.
Response(text, items, pre, post, raw) ==
    [text |-> text, items |-> items, pre |-> pre, post |-> post, raw |-> raw]
None == Response("none", <<>>, <<>>, <<>>, <<>>)
\* target_pages = None (an empty tuple is as falsy)
NoTarget == <<>>
NoResult == [kind |-> "none", error |-> "", list |-> <<>>]
ErrorResult(msg) == [kind |-> "error", error |-> msg, list |-> <<>>]
ListResult(cands) == [kind |-> "list", error |-> "", list |-> cands]

\* The locals of a call before its first statement.
FreshCall ==
    /\ source_images = <<>>
    /\ start_offset = 0
    /\ batches = <<>>
    /\ batch_idx = 0
    /\ model_idx = 0
    /\ response = None
    /\ last_error = ""
    /\ data = <<>>
    /\ item_idx = 0
    /\ all_candidates = <<>>
    /\ errors = <<>>
    /\ calls = <<>>
    /\ result = NoResult

\* --------------------------------------------------------- parse_with_gemini
\* Mutant: the check of the API key is missing.
ConfigOutcome_NoKeyCheck(configure_ok) ==
    LET opened == [error |-> "",
                   images |-> [i \in 1..file_bytes.pages |-> i]]
        failed(msg) == [error |-> msg, images |-> <<>>]
    IN  IF ~HAS_GENAI THEN failed("missing google-generativeai")
        ELSE IF ~configure_ok THEN failed("API key configuration failed")
        ELSE IF file_type = "pdf"
             THEN IF ~HAS_PDF2IMAGE THEN failed("missing pdf2image")
                  ELSE IF ~file_bytes.opens THEN failed("PDF conversion failed")
                  ELSE IF file_bytes.pages = 0 THEN failed("PDF has no page")
                  ELSE opened
        ELSE IF file_type = "docx"
             THEN IF ~HAS_DOCX THEN failed("missing python-docx")
                  ELSE IF ~file_bytes.opens THEN failed("Word parsing failed")
                  ELSE opened
        ELSE failed("only PDF or Word")

\* The checks and the document conversion that precede the page selection:
\* the error they return, or "" and the source images.  configure_ok is
\* whether genai.configure returned.  A page image is its 1-based page number.
ConfigOutcome(configure_ok) ==
    LET opened == [error |-> "",
                   images |-> [i \in 1..file_bytes.pages |-> i]]
        failed(msg) == [error |-> msg, images |-> <<>>]
    IN  IF ~HAS_GENAI THEN failed("missing google-generativeai")
        ELSE IF api_key = "" THEN failed("enter the API key")
        ELSE IF ~configure_ok THEN failed("API key configuration failed")
        ELSE IF file_type = "pdf"
             THEN IF ~HAS_PDF2IMAGE THEN failed("missing pdf2image")
                  ELSE IF ~file_bytes.opens THEN failed("PDF conversion failed")
                  ELSE IF file_bytes.pages = 0 THEN failed("PDF has no page")
                  ELSE opened
        ELSE IF file_type = "docx"
             THEN IF ~HAS_DOCX THEN failed("missing python-docx")
                  ELSE IF ~file_bytes.opens THEN failed("Word parsing failed")
                  ELSE opened
        ELSE failed("only PDF or Word")

CheckConfig ==
    /\ pc = "config"
    /\ \E configure_ok \in BOOLEAN :
         LET out == ConfigOutcome(configure_ok)
         IN  IF out.error # ""
             THEN /\ result' = ErrorResult(out.error)
                  /\ pc' = "return"
                  /\ UNCHANGED source_images
             ELSE /\ source_images' = out.images
                  /\ pc' = "pages"
                  /\ UNCHANGED result
    /\ UNCHANGED <<envVars, bankVars, fn_args, fn_ret, appVars, argVars, start_offset, batches, loopVars,
                   all_candidates, errors, calls>>

\* The page range of the call: everything, or the clamped target_pages of a
\* PDF; an empty range is an error.  The range is handed on as ONE batch.
SelectPages ==
    /\ pc = "pages"
    /\ IF target_pages # NoTarget /\ file_type = "pdf"
       THEN LET start_p == IF target_pages[1] > 0 THEN target_pages[1] ELSE 0
                end_p == IF Len(source_images) < target_pages[2]
                         THEN Len(source_images) ELSE target_pages[2]
            IN  IF start_p < end_p
                THEN /\ batches' = <<SubSeq(source_images, start_p + 1, end_p)>>
                     /\ start_offset' = start_p
                     /\ batch_idx' = 1
                     /\ pc' = "batch"
                     /\ UNCHANGED result
                ELSE /\ result' = ErrorResult("invalid page range")
                     /\ pc' = "return"
                     /\ UNCHANGED <<batches, start_offset, batch_idx>>
       ELSE /\ batches' = <<source_images>>
            /\ batch_idx' = 1
            /\ pc' = "batch"
            /\ UNCHANGED <<start_offset, result>>
    /\ UNCHANGED <<envVars, bankVars, fn_args, fn_ret, appVars, argVars, source_images, model_idx, response,
                   last_error, data, item_idx, all_candidates, errors, calls>>

\* The head of the batch loop: the next batch's prompt is built and the model
\* loop starts with no response and no error, or the loop is over.
BeginBatch ==
    /\ pc = "batch"
    /\ IF batch_idx <= Len(batches)
       THEN /\ model_idx' = 1
            /\ response' = None
            /\ last_error' = ""
            /\ pc' = "model"
       ELSE /\ pc' = "final"
            /\ UNCHANGED <<model_idx, response, last_error>>
    /\ UNCHANGED <<envVars, bankVars, fn_args, fn_ret, appVars, argVars, pageVars, batch_idx, data, item_idx,
                   outVars>>

\* The record of one generate_content call.
CallRecord(ok) ==
    [batch |-> batch_idx, model |-> candidate_models[model_idx],
     images |-> batches[batch_idx], ok |-> ok]

\* str(e) of the exception generate_content raises for a model.
FailureOf(model_name) == "unavailable " \o model_name

\* generate_content raises: the exception is kept and the next model is tried.
ModelFails ==
    /\ pc = "model"
    /\ model_idx <= Len(candidate_models)
    /\ calls' = Append(calls, CallRecord(FALSE))
    /\ last_error' = FailureOf(candidate_models[model_idx])
    /\ model_idx' = model_idx + 1
    /\ UNCHANGED <<envVars, bankVars, fn_args, fn_ret, appVars, pc, argVars, pageVars, batch_idx, response,
                   data, item_idx, all_candidates, errors, result>>

\* Mutant: the break is missing, the remaining models are called as well.
ModelReturns_NoBreak(r) ==
    /\ pc = "model"
    /\ model_idx <= Len(candidate_models)
    /\ calls' = Append(calls, CallRecord(TRUE))
    /\ response' = r
    /\ model_idx' = model_idx + 1
    /\ pc' = IF model_idx = Len(candidate_models) THEN "response" ELSE "model"
    /\ UNCHANGED <<envVars, bankVars, fn_args, fn_ret, appVars, argVars, pageVars, batch_idx,
                   last_error, data, item_idx, all_candidates, errors, result>>

\* generate_content returns r: the model loop is left.
ModelReturns(r) ==
    /\ pc = "model"
    /\ model_idx <= Len(candidate_models)
    /\ calls' = Append(calls, CallRecord(TRUE))
    /\ response' = r
    /\ pc' = "response"
    /\ UNCHANGED <<envVars, bankVars, fn_args, fn_ret, appVars, argVars, pageVars, batch_idx, model_idx,
                   last_error, data, item_idx, all_candidates, errors, result>>

\* The model list is used up.
ModelsExhausted ==
    /\ pc = "model"
    /\ model_idx > Len(candidate_models)
    /\ pc' = "response"
    /\ UNCHANGED <<envVars, bankVars, fn_args, fn_ret, appVars, argVars, pageVars, loopVars, outVars>>

\* The three messages a batch can record.
BatchFailed(e) == "Batch failed: " \o e
EmptyResponse == "Batch: Empty response"
ParseError(e) == "parse error: " \o e            \* 解析錯誤

\* str.find and str.rfind on tokens: the 1-based position, 0 for -1.
FirstIndex(t, S) ==
    IF \E i \in 1..Len(t) : t[i] \in S
    THEN CHOOSE i \in 1..Len(t) : t[i] \in S /\ \A j \in 1..(i - 1) : t[j] \notin S
    ELSE 0
LastIndex(t, S) ==
    IF \E i \in 1..Len(t) : t[i] \in S
    THEN CHOOSE i \in 1..Len(t) : t[i] \in S /\ \A j \in (i + 1)..Len(t) : t[j] \notin S
    ELSE 0

\* str.strip()
RECURSIVE Strip(_)
Strip(t) ==
    IF t = <<>> THEN t
    ELSE IF Head(t) = "ws" THEN Strip(Tail(t))
    ELSE IF t[Len(t)] = "ws" THEN Strip(SubSeq(t, 1, Len(t) - 1))
    ELSE t

\* json_str.split(marker)[1].split(fence)[0]: what follows the first marker,
\* up to the next fence marker of either kind (the longer holds the shorter).
InsideFence(t, marker) ==
    LET rest == SubSeq(t, FirstIndex(t, {marker}) + 1, Len(t))
        close == FirstIndex(rest, {"fence_json", "fence"})
    IN  IF close = 0 THEN rest ELSE SubSeq(rest, 1, close - 1)

\* Mutant: the array ends at the first "]" (find in place of rfind).
clean_json_string_FirstClose(json_str) ==
    LET fenced == IF "fence_json" \in Range(json_str) THEN InsideFence(json_str, "fence_json")
                  ELSE IF "fence" \in Range(json_str) THEN InsideFence(json_str, "fence")
                  ELSE json_str
        start == FirstIndex(fenced, {"["})
        end == FirstIndex(fenced, {"]"})
    IN  Strip(IF start # 0 /\ end # 0 THEN SubSeq(fenced, start, end) ELSE fenced)

clean_json_string(json_str) ==
    LET fenced == IF "fence_json" \in Range(json_str) THEN InsideFence(json_str, "fence_json")
                  ELSE IF "fence" \in Range(json_str) THEN InsideFence(json_str, "fence")
                  ELSE json_str
        start == FirstIndex(fenced, {"["})
        end == LastIndex(fenced, {"]"})
    IN  Strip(IF start # 0 /\ end # 0 THEN SubSeq(fenced, start, end) ELSE fenced)

\* json.loads on tokens.  A value is parsed from position i, n objects having
\* been opened before it: ok, the position after it, the objects opened up
\* to there, its kind and, for an array, its elements (whether each is an
\* object, and the how-manieth).
Tok(t, i) == IF i \in 1..Len(t) THEN t[i] ELSE "eof"
NoValue == [ok |-> FALSE, next |-> 0, n |-> 0, kind |-> "", elems |-> <<>>]
Value(next, n, kind, elems) ==
    [ok |-> TRUE, next |-> next, n |-> n, kind |-> kind, elems |-> elems]

RECURSIVE ParseValue(_, _, _), ParseMembers(_, _, _), ParseElements(_, _, _, _)
ParseValue(t, i, n) ==
    CASE Tok(t, i) = "e" -> Value(i + 1, n, "scalar", <<>>)
      [] Tok(t, i) = "{" ->
           ParseMembers(t, IF Tok(t, i + 1) = "s" THEN i + 2 ELSE i + 1, n + 1)
      [] Tok(t, i) = "[" ->
           IF Tok(t, i + 1) = "]" THEN Value(i + 2, n, "array", <<>>)
           ELSE ParseElements(t, i + 1, n, <<>>)
      [] OTHER -> NoValue
ParseMembers(t, i, n) ==
    CASE Tok(t, i) = "}" -> Value(i + 1, n, "object", <<>>)
      [] Tok(t, i) = "k" ->
           LET v == ParseValue(t, i + 1, n)
           IN  IF v.ok THEN ParseMembers(t, v.next, v.n) ELSE NoValue
      [] OTHER -> NoValue
ParseElements(t, i, n, elems) ==
    LET v == ParseValue(t, i, n)
        more == Append(elems, [obj |-> v.kind = "object", idx |-> n + 1])
    IN  IF ~v.ok THEN NoValue
        ELSE CASE Tok(t, v.next) = "," -> ParseElements(t, v.next + 1, v.n, more)
               [] Tok(t, v.next) = "]" -> Value(v.next + 1, v.n, "array", more)
               [] OTHER -> NoValue

\* json.loads(json_text): white space aside, one value and nothing after it.
json_loads(json_text) ==
    LET t == SelectSeq(json_text, LAMBDA x : x # "ws")
        v == ParseValue(t, 1, 0)
    IN  IF v.ok /\ v.next = Len(t) + 1 THEN v ELSE NoValue

\* response.text, clean_json_string, json.loads and the wrapping of a single
\* object: reading the text of a blocked response raises, an empty text is
\* the empty response, and what is no JSON or nothing to loop over raises.
ParseResponse(r) ==
    IF r.text = "blocked"
    THEN [error |-> ParseError("no text part"), data |-> <<>>]
    ELSE IF r.raw = <<>>
    THEN [error |-> EmptyResponse, data |-> <<>>]
    ELSE LET v == json_loads(clean_json_string(r.raw))
             element(e) == IF e.obj THEN r.items[e.idx] ELSE NonObject
         IN  IF ~v.ok THEN [error |-> ParseError("invalid JSON"), data |-> <<>>]
             ELSE IF v.kind = "object" THEN [error |-> "", data |-> <<r.items[1]>>]
             ELSE IF v.kind = "array"
             THEN [error |-> "", data |-> [i \in 1..Len(v.elems) |-> element(v.elems[i])]]
             ELSE [error |-> ParseError("not iterable"), data |-> <<>>]

\* After the model loop: no response, an unusable response (both record an
\* error and go on with the next batch), or the parsed array.
CheckResponse ==
    /\ pc = "response"
    /\ IF response = None
       THEN /\ errors' = Append(errors, BatchFailed(last_error))
            /\ batch_idx' = batch_idx + 1
            /\ pc' = "batch"
            /\ UNCHANGED <<data, item_idx>>
       ELSE LET parsed == ParseResponse(response)
            IN  IF parsed.error # ""
                THEN /\ errors' = Append(errors, parsed.error)
                     /\ batch_idx' = batch_idx + 1
                     /\ pc' = "batch"
                     /\ UNCHANGED <<data, item_idx>>
                ELSE /\ data' = parsed.data
                     /\ item_idx' = 1
                     /\ pc' = "item"
                     /\ UNCHANGED <<errors, batch_idx>>
    /\ UNCHANGED <<envVars, bankVars, fn_args, fn_ret, appVars, argVars, pageVars, model_idx, response,
                   last_error, all_candidates, calls, result>>

\* One turn of `for item in data': the element is dropped, appended as a
\* candidate, or raises, which ends the batch with a recorded error.
ProcessItem ==
    /\ pc = "item"
    /\ item_idx <= Len(data)
    /\ LET out == ItemOutcome(data[item_idx], batches[batch_idx], file_type)
       IN  CASE out.act = "raise" ->
                  /\ errors' = Append(errors, ParseError("not an object"))
                  /\ batch_idx' = batch_idx + 1
                  /\ pc' = "batch"
                  /\ UNCHANGED <<item_idx, all_candidates>>
             [] out.act = "skip" ->
                  /\ item_idx' = item_idx + 1
                  /\ UNCHANGED <<pc, errors, batch_idx, all_candidates>>
             [] OTHER ->
                  /\ all_candidates' = Append(all_candidates, out.cand)
                  /\ item_idx' = item_idx + 1
                  /\ UNCHANGED <<pc, errors, batch_idx>>
    /\ UNCHANGED <<envVars, bankVars, fn_args, fn_ret, appVars, argVars, pageVars, model_idx, response,
                   last_error, data, calls, result>>

\* The array is used up: on to the next batch.
EndItems ==
    /\ pc = "item"
    /\ item_idx > Len(data)
    /\ batch_idx' = batch_idx + 1
    /\ pc' = "batch"
    /\ UNCHANGED <<envVars, bankVars, fn_args, fn_ret, appVars, argVars, pageVars, model_idx, response,
                   last_error, data, item_idx, outVars>>

\* Mutant: any recorded error makes the call fail, candidates or not.
FinalResult_ErrorOnAnyError(cands, errs) ==
    IF errs # <<>>
    THEN ErrorResult(JoinMessages(errs))
    ELSE ListResult(SortCandidates(cands))

\* What the call returns after the batch loop.
FinalResult(cands, errs) ==
    IF cands = <<>> /\ errs # <<>>
    THEN ErrorResult(JoinMessages(errs))
    ELSE ListResult(SortCandidates(cands))

\* The end of the call: the list is sorted in place when it is returned.
Finalize ==
    /\ pc = "final"
    /\ result' = FinalResult(all_candidates, errors)
    /\ all_candidates' = IF result'.kind = "list" THEN result'.list ELSE all_candidates
    /\ pc' = "return"
    /\ UNCHANGED <<envVars, bankVars, fn_args, fn_ret, appVars, argVars, pageVars, loopVars, errors, calls>>

ParseStep ==
    \/ CheckConfig
    \/ SelectPages
    \/ BeginBatch
    \/ ModelFails
    \/ ModelsExhausted
    \/ CheckResponse
    \/ ProcessItem
    \/ EndItems
    \/ Finalize

\* ------------------------------------------------------ the model service
\* What generate_content may answer: these sets stand for the external model.
Document(pages, opens) == [pages |-> pages, opens |-> opens]

BaseItem ==
    [NoFields EXCEPT
        !.keys = {"number", "type", "content", "options", "chapter"},
        !.content = <<"q">>, !.options = << <<"a">> >>, !.type = "Single",
        !.number = JInt(1), !.chapter = "ch1"]

With(item, key, value) ==
    [item EXCEPT !.keys = @ \cup {key}, ![key] = value]

Without(item, key) ==
    [item EXCEPT !.keys = @ \ {key}, ![key] = NoFields[key]]

Newton == <<"niu", "dun">>                              \* 牛頓
MultiCue == <<"ying", "xuan", "er_two", "xiang">>          \* 應選二項

\* Items that differ in their number only.
Numbers == {JInt(1), JInt(2), JDigits(1)}
NumberPool == {[BaseItem EXCEPT !.number = n] : n \in Numbers}
\* Arrays with a number that is no number.
WordArrays ==
    LET numbered(n) == [BaseItem EXCEPT !.number = n]
    IN  {<<numbered(JWord)>>,
         <<numbered(JInt(2)), numbered(JInt(1)), numbered(JWord)>>,
         <<numbered(JWord), numbered(JInt(2)), numbered(JInt(1))>>}

\* Pairs of a well-formed item, an item the filter drops and an element that
\* is no object.
MixedPairs ==
    LET kinds == {BaseItem, [BaseItem EXCEPT !.content = EXCLUDE_KEYWORDS[1]],
                  NonObject}
    IN  {<<a, b>> : a \in kinds, b \in kinds}

\* Items that differ in their text, options and reported type.
KeywordTexts ==
    {EXCLUDE_KEYWORDS[k] : k \in 1..Len(EXCLUDE_KEYWORDS)}
        \cup {<<"q">> \o EXCLUDE_KEYWORDS[k] \o Newton : k \in 1..Len(EXCLUDE_KEYWORDS)}
        \cup {<<"d", "n", "a">>}
CueTexts == {<<"q">>, MultiCue, <<"q", "ying", "xuan">>, <<"q", "xiang">>}
OptionLists == {<<>>, << <<"a">> >>, << <<"a">>, <<"san">> >>}
ReportedTypes == {"Single", "Multi", "Fill", "Group"}

TextPool ==
    {[BaseItem EXCEPT !.content = c] : c \in KeywordTexts}
        \cup {[BaseItem EXCEPT !.options = <<EXCLUDE_KEYWORDS[k]>>] : k \in {1, 12}}
        \cup {[BaseItem EXCEPT !.options = <<<<"q">> \o EXCLUDE_KEYWORDS[1] \o Newton>>]}
        \cup {[BaseItem EXCEPT !.content = c, !.options = o, !.type = t] :
                c \in CueTexts, o \in OptionLists, t \in ReportedTypes}
        \cup {Without([BaseItem EXCEPT !.content = c], "type") : c \in CueTexts}
        \cup {Without([BaseItem EXCEPT !.content = c], "options") : c \in CueTexts}
        \cup {[BaseItem EXCEPT !.chapter = "chX"], Without(BaseItem, "chapter"),
              Without(BaseItem, "content"), Without(BaseItem, "number"),
              [BaseItem EXCEPT !.number = JNull],
              [BaseItem EXCEPT !.number = JFloat(15)]}

\* Items that differ in their page and their boxes (ymin, xmin, ymax, xmax).
PageIndexes ==
    {JInt(0), JInt(1), JInt(2), JInt(0 - 1), JFloat(10), JDigits(1), JNull,
     JBool(TRUE), JBool(FALSE)}
Boxes ==
    {NoBox, BadBox, Box(<<>>), Box(<<100, 200, 300>>),
     Box(<<100, 200, 300, 400, 500>>),
     Box(<<100, 200, 300, 400>>), Box(<<0, 0, 1000, 1000>>),
     Box(<<300, 200, 100, 400>>), Box(<<100, 400, 300, 200>>),
     Box(<<1200, 0, 1300, 1000>>), Box(<<0 - 300, 0, 0 - 200, 1000>>)}
ImagePool ==
    {With(BaseItem, "page_index", p) : p \in PageIndexes}
        \cup {With(BaseItem, "box_2d", b) : b \in Boxes}
        \cup {With(BaseItem, "full_question_box_2d", b) : b \in Boxes}
        \cup {With(With(BaseItem, "box_2d", b), "full_question_box_2d", f) :
                b \in Boxes, f \in {NoBox, BadBox, Box(<<100, 200, 300, 400>>)}}

\* Items with sub-questions, of every reported type.
SubPool ==
    {With([BaseItem EXCEPT !.content = c, !.options = o, !.type = t],
          "sub_questions", <<"sq">>) :
        c \in {<<"q">>, MultiCue}, o \in {<<>>, << <<"a">> >>}, t \in ReportedTypes}

SeqsUpTo(S, n) == UNION {[1..k -> S] : k \in 0..n}

\* The JSON text of a list of n scalars, of an object and of an array of
\* elements (an element that is no object is a scalar).
RECURSIVE RenderScalars(_)
RenderScalars(n) ==
    IF n = 0 THEN <<>>
    ELSE IF n = 1 THEN <<"e">>
    ELSE <<"e", ",">> \o RenderScalars(n - 1)
RenderMember(item, key, n) ==
    IF key \in item.keys THEN <<"k", "[">> \o RenderScalars(n) \o <<"]">> ELSE <<>>
RenderBox(item, key) ==
    IF key \in item.keys /\ item[key].kind # "null"
    THEN <<"k", "[">> \o RenderScalars(Len(item[key].v)) \o <<"]">>
    ELSE <<>>
RenderObject(item) ==
    <<"{", "s">>
        \o RenderMember(item, "options", Len(item.options))
        \o RenderBox(item, "full_question_box_2d")
        \o RenderBox(item, "box_2d")
        \o RenderMember(item, "sub_questions", Len(item.sub_questions))
        \o <<"}">>
RenderElement(item) == IF item.obj THEN RenderObject(item) ELSE <<"e">>
RECURSIVE RenderElements(_)
RenderElements(items) ==
    IF items = <<>> THEN <<>>
    ELSE IF Len(items) = 1 THEN RenderElement(items[1])
    ELSE RenderElement(items[1]) \o <<",">> \o RenderElements(Tail(items))
RenderArray(items) == <<"[">> \o RenderElements(items) \o <<"]">>

\* The objects among the elements: the payload of a response.
Objects(items) == SelectSeq(items, LAMBDA x : x.obj)

Unusable ==
    {Response("blocked", <<>>, <<>>, <<>>, <<>>),
     Response("empty", <<>>, <<>>, <<>>, <<>>),
     Response("garbage", <<>>, <<>>, <<>>, <<"w">>)}
Array(items) == Response("array", Objects(items), <<>>, <<>>, RenderArray(items))
Object(item) == Response("object", <<item>>, <<>>, <<>>, RenderObject(item))
\* A JSON array with prose before and after it.
Wrapped(pre, items, post) ==
    Response("wrapped", Objects(items), pre, post,
             pre \o RenderArray(items) \o post)

\* Prose before and after the array: words, white space, fence markers and
\* brackets of its own.
Prefixes ==
    {<<>>, <<"w", "ws">>, <<"fence_json", "ws">>, <<"fence", "ws">>,
     <<"w", "fence_json">>, <<"w", "[", "w", "]", "ws">>, <<"[">>,
     <<"w", "[", "w", "]", "fence_json">>, <<"fence", "w", "fence", "ws">>}
Suffixes ==
    {<<>>, <<"ws", "w">>, <<"fence">>, <<"ws", "fence", "w">>, <<"w", "]">>,
     <<"fence", "w", "[", "w", "]">>, <<"ws", "fence_json", "w", "fence">>}
PlainPrefixes == {<<>>, <<"w", "ws">>, <<"fence_json", "ws">>, <<"fence", "ws">>}
PlainSuffixes == {<<>>, <<"ws", "w">>, <<"fence">>, <<"ws", "fence", "w">>}
WrappedArrays ==
    {<<BaseItem>>, <<[BaseItem EXCEPT !.number = JInt(2)], BaseItem>>}
\* Single objects: with one array-valued member, with none, with an empty
\* one and with two.
ObjectPool ==
    {BaseItem, Without(BaseItem, "options"), [BaseItem EXCEPT !.options = <<>>],
     With(BaseItem, "box_2d", Box(<<100, 200, 300, 400>>)),
     With(Without(BaseItem, "options"), "full_question_box_2d", NoBox)}

\* Answers to a direct call.
ParseResponses ==
    Unusable
        \cup {Response("garbage", <<>>, <<>>, <<>>, <<"ws">>),
              Response("garbage", <<>>, <<>>, <<>>, <<"e">>)}
        \cup {Array(items) : items \in SeqsUpTo(NumberPool, MaxItems)}
        \cup {Array(items) : items \in MixedPairs \cup WordArrays}
        \cup {Array(<<i>>) : i \in TextPool \cup ImagePool \cup SubPool}
        \cup {Object(i) : i \in ObjectPool}
        \cup {Wrapped(pre, items, post) :
                pre \in Prefixes, items \in WrappedArrays, post \in PlainSuffixes}
        \cup {Wrapped(pre, items, post) :
                pre \in PlainPrefixes, items \in WrappedArrays, post \in Suffixes}
        \cup {Wrapped(<<"w", "ws">>, <<>>, <<"ws", "w">>)}

\* Answers during a session.
AppPool == {BaseItem, [BaseItem EXCEPT !.chapter = "chX"]}
AppResponses ==
    Unusable \cup {Array(items) : items \in SeqsUpTo(AppPool, MaxAppItems)}

\* ------------------------------------------------------------ a direct call
NoFile == [stem |-> "", ext |-> ""]

TargetChoices(ft) ==
    IF ft = "pdf"
    THEN {NoTarget, <<0, 1>>, <<1, 1>>, <<1, 3>>}
    ELSE {NoTarget}

\* parse_with_gemini(file_bytes, file_type, api_key, target_pages)
DirectCall(doc, ft, key, target) ==
    /\ pc = "idle"
    /\ caller' = NoFile
    /\ file_bytes' = doc
    /\ file_type' = ft
    /\ api_key' = key
    /\ target_pages' = target
    /\ pc' = "config"
    /\ UNCHANGED <<envVars, bankVars, fn_args, fn_ret, appVars, pageVars, loopVars, outVars>>

\* The installation: at most one of the three packages is missing.
InitEnv ==
    /\ HAS_GENAI \in BOOLEAN
    /\ HAS_PDF2IMAGE \in BOOLEAN
    /\ HAS_DOCX \in BOOLEAN
    /\ \/ HAS_GENAI /\ HAS_PDF2IMAGE
       \/ HAS_GENAI /\ HAS_DOCX
       \/ HAS_PDF2IMAGE /\ HAS_DOCX

\* No question in the bank.
InitBank ==
    /\ question_pool = <<>>
    /\ questions = {}

\* No utility function is called on its own.
InitFn ==
    /\ fn_args = <<>>
    /\ fn_ret = <<>>

InitCall ==
    /\ pc = "idle"
    /\ caller = NoFile
    /\ file_bytes = Document(0, TRUE)
    /\ file_type = ""
    /\ api_key = ""
    /\ target_pages = NoTarget
    /\ FreshCall

\* -------------------------------------------------------------- the session
\* The files the uploader accepts (type=['pdf', 'docx']).
Files == {[stem |-> "exam", ext |-> "pdf"], [stem |-> "exam", ext |-> "docx"]}

\* The MIME type the browser reports for an accepted file, split at "/".
MimeParts(f) ==
    IF f.ext = "pdf" THEN <<"application", "pdf">>
    ELSE <<"application", "vnd.openxmlformats-officedocument.wordprocessingml.document">>

\* f.type.split('/')[-1] if '/' in f.type else 'pdf'
UploadType(f) ==
    LET parts == MimeParts(f)
    IN  IF Len(parts) > 1 THEN parts[Len(parts)] ELSE "pdf"

\* fname.split('.')[-1].lower()
DownloadType(f) == f.ext

\* The documents a file of the session may hold: a PDF of no page, of one
\* page, of two batches and of three batches, a Word file of a few images,
\* and a file of either kind that does not open.
Documents(f) ==
    IF f.ext = "pdf"
    THEN {Document(n, TRUE) : n \in {0, 1, BatchSize + 1, 2 * BatchSize + 1}} \cup {Document(1, FALSE)}
    ELSE {Document(n, TRUE) : n \in 0..MaxDocxImages} \cup {Document(1, FALSE)}

\* The session handles one exam file: no other file has a record.
OnlyFile(f) == \A g \in Files \ {f} : cloud_files[g] = "absent"

\* The id of the file record of f in the exam_files collection.
RecordId(f) == "file_" \o f.ext

\* An entry of the queue; db_id is NoneValue for an entry without the key.
NotQueued ==
    [status |-> "absent", data |-> Document(0, TRUE), type |-> "",
     result |-> <<>>, error_msg |-> "", db_id |-> NoneValue]
Queued(doc, type, db_id) ==
    [status |-> "uploaded", data |-> doc, type |-> type,
     result |-> <<>>, error_msg |-> "", db_id |-> db_id]

\* tab_upload_process, the upload button: a file with no record of its name
\* in the cloud gets one and enters the queue, typed by its MIME type.
Upload(f, doc) ==
    /\ pc = "idle"
    /\ OnlyFile(f)
    /\ cloud_files[f] = "absent"
    /\ cloud_files' = [cloud_files EXCEPT ![f] = "unrecognized"]
    /\ file_queue' = [file_queue EXCEPT ![f] = Queued(doc, UploadType(f), NoneValue)]
    /\ UNCHANGED <<envVars, bankVars, fn_args, fn_ret, pc, argVars, pageVars, loopVars, outVars>>

\* process_single_file up to the call: a name that is not in the queue
\* returns at once, the entry of any other is marked 'processing'.
MarkProcessing(queue, filename) ==
    IF queue[filename].status = "absent" THEN queue
    ELSE [queue EXCEPT ![filename].status = "processing"]

\* Mutant: an error leaves the status as it was during the call.
Processed_ErrorKeepsStatus(info, res) ==
    IF res.kind = "error"
    THEN [info EXCEPT !.error_msg = res.error]
    ELSE [info EXCEPT !.status = "done", !.result = res.list]

\* process_single_file after the call: what res makes of the entry.
Processed(info, res) ==
    IF res.kind = "error"
    THEN [info EXCEPT !.status = "error", !.error_msg = res.error]
    ELSE [info EXCEPT !.status = "done", !.result = res.list]

\* tab_files, the recognition button of a file record: a file that is not in
\* the queue is downloaded (doc) and queued, typed by its extension; then
\* process_single_file marks it 'processing' and calls parse_with_gemini.
Recognize(f, doc, key) ==
    /\ pc = "idle"
    /\ OnlyFile(f)
    /\ cloud_files[f] # "absent"
    /\ LET info == IF file_queue[f].status = "absent"
                   THEN Queued(doc, DownloadType(f), RecordId(f))
                   ELSE file_queue[f]
       IN  /\ file_queue' = MarkProcessing([file_queue EXCEPT ![f] = info], f)
           /\ file_bytes' = info.data
           /\ file_type' = info.type
    /\ caller' = f
    /\ api_key' = key
    /\ target_pages' = NoTarget
    /\ pc' = "config"
    /\ UNCHANGED <<envVars, bankVars, fn_args, fn_ret, cloud_files, pageVars, loopVars, outVars>>

\* process_single_file after parse_with_gemini returned; the rerun that ends
\* it starts the next script run with fresh locals.
ProcessReturn ==
    /\ pc = "return"
    /\ caller # NoFile
    /\ file_queue' = [file_queue EXCEPT ![caller] = Processed(@, result)]
    /\ cloud_files' = IF result.kind = "error" THEN cloud_files
                      ELSE [cloud_files EXCEPT ![caller] = "recognized"]
    /\ pc' = "idle"
    /\ caller' = NoFile
    /\ file_bytes' = Document(0, TRUE)
    /\ file_type' = ""
    /\ api_key' = ""
    /\ target_pages' = NoTarget
    /\ source_images' = <<>>
    /\ start_offset' = 0
    /\ batches' = <<>>
    /\ batch_idx' = 0
    /\ model_idx' = 0
    /\ response' = None
    /\ last_error' = ""
    /\ data' = <<>>
    /\ item_idx' = 0
    /\ all_candidates' = <<>>
    /\ errors' = <<>>
    /\ calls' = <<>>
    /\ result' = NoResult
    /\ UNCHANGED <<envVars, bankVars, fn_args, fn_ret>>

\* The widget of the type select box: the candidate's type when it is one of
\* the three offered, else the first entry.
TypeWidget(q_type) ==
    IF q_type \in {"Single", "Multi", "Fill"} THEN q_type ELSE "Single"

\* tab_review, the edit form of a 'done' file: every candidate is assigned
\* from its widgets; the user picks ch in the chapter select box of candidate i.
ReviewEdit(f, i, ch) ==
    /\ pc = "idle"
    /\ file_queue[f].status = "done"
    /\ i \in 1..Len(file_queue[f].result)
    /\ file_queue' = [file_queue EXCEPT ![f].result =
          [j \in 1..Len(@) |->
              [@[j] EXCEPT !.q_type = TypeWidget(@),
                           !.predicted_chapter = IF j = i THEN ch ELSE @]]]
    /\ UNCHANGED <<envVars, bankVars, fn_args, fn_ret, cloud_files, pc, argVars, pageVars, loopVars, outVars>>

\* The candidates of a file as the review form leaves them on a script run:
\* every field is assigned from its widget.
Rendered(candidates) ==
    [i \in 1..Len(candidates) |->
        [candidates[i] EXCEPT !.q_type = TypeWidget(@)]]

\* The bytes of a candidate's image as a Question holds them.
ImageData(image_bytes) ==
    IF image_bytes = NoBytes THEN NoneValue ELSE "img"

\* Mutant: the first candidate is skipped.
NewQuestions_SkipsFirst(candidates, source_tag, ans_val, db_file_id, clock) ==
    [i \in 1..(Len(candidates) - 1) |->
        Question(candidates[i + 1].q_type, candidates[i + 1].content,
                 candidates[i + 1].options, ans_val,
                 ImageData(candidates[i + 1].image_bytes), source_tag,
                 candidates[i + 1].predicted_chapter, "", NoneValue, NoneValue,
                 FALSE, <<>>, NoneValue, db_file_id, ToString(clock + i))]

\* The questions the import makes of the candidates, one each; their ids are
\* made of the clock, which moves on from one to the next.
NewQuestions(candidates, source_tag, ans_val, db_file_id, clock) ==
    [i \in 1..Len(candidates) |->
        Question(candidates[i].q_type, candidates[i].content,
                 candidates[i].options, ans_val,
                 ImageData(candidates[i].image_bytes), source_tag,
                 candidates[i].predicted_chapter, "", NoneValue, NoneValue,
                 FALSE, <<>>, NoneValue, db_file_id, ToString(clock + i))]

\* CloudManager.save_question: an image is moved to the storage, its URL put
\* in the place of the encoded bytes, and the document set under its id.
save_question(collection, question_dict) ==
    LET stored == IF Truthy(question_dict.image_data_b64)
                  THEN [question_dict EXCEPT !.image_url = "url",
                                             !.image_data_b64 = NoneValue]
                  ELSE question_dict
    IN  {d \in collection : d.id # question_dict.id} \cup {stored}

\* Saving the questions qs one after the other.
RECURSIVE SaveAll(_, _)
SaveAll(collection, qs) ==
    IF qs = <<>> THEN collection
    ELSE SaveAll(save_question(collection, to_dict(Head(qs))), Tail(qs))

\* CloudManager.delete_question
delete_question(collection, doc_id) == {d \in collection : d.id # doc_id}

\* tab_review, the import button of the selected 'done' file: the form is
\* rendered, then one Question per candidate is saved and appended to the
\* pool, and the file is marked 'imported'.
Import(f, ans_val) ==
    /\ pc = "idle"
    /\ file_queue[f].status = "done"
    /\ Len(question_pool) + Len(file_queue[f].result) <= MaxPool
    /\ LET candidates == Rendered(file_queue[f].result)
           new_qs == NewQuestions(candidates, "src", ans_val,
                                  file_queue[f].db_id, Len(question_pool))
       IN  /\ question_pool' = question_pool \o new_qs
           /\ questions' = SaveAll(questions, new_qs)
           /\ file_queue' = [file_queue EXCEPT ![f].result = candidates,
                                               ![f].status = "imported"]
           /\ cloud_files' = IF Truthy(file_queue[f].db_id)
                             THEN [cloud_files EXCEPT ![f] = "imported"]
                             ELSE cloud_files
    /\ UNCHANGED <<envVars, fn_args, fn_ret, pc, argVars, pageVars, loopVars, outVars>>

\* tab_bank, the save button of question i: the answer typed in its editor
\* is assigned to the question and the question is saved.
BankSave(i, answer) ==
    /\ pc = "idle"
    /\ i \in 1..Len(question_pool)
    /\ question_pool' = [question_pool EXCEPT ![i].answer = answer]
    /\ questions' = save_question(questions, to_dict(question_pool'[i]))
    /\ UNCHANGED <<envVars, fn_args, fn_ret, appVars, pc, argVars, pageVars, loopVars, outVars>>

\* tab_bank, the delete button of question i: the document is deleted and
\* the script reruns; the pool of the session is not loaded again.
BankDelete(i) ==
    /\ pc = "idle"
    /\ i \in 1..Len(question_pool)
    /\ questions' = delete_question(questions, question_pool[i].id)
    /\ UNCHANGED <<envVars, fn_args, fn_ret, appVars, question_pool, pc, argVars, pageVars, loopVars, outVars>>

\* ----------------------------------------------------------- specifications
\* A session of the application.
Init ==
    /\ InitEnv
    /\ file_queue = [f \in Files |-> NotQueued]
    /\ cloud_files \in [Files -> {"absent", "unrecognized"}]
    /\ \E f \in Files : OnlyFile(f)
    /\ InitCall
    /\ InitBank
    /\ InitFn

Next ==
    \/ \E f \in Files : \E doc \in Documents(f) : Upload(f, doc)
    \/ \E f \in Files : \E doc \in Documents(f) : \E key \in {"", "key"} :
          Recognize(f, doc, key)
    \/ \E r \in AppResponses : ModelReturns(r)
    \/ ParseStep
    \/ ProcessReturn
    \/ \E f \in Files : \E i \in 1..MaxAppItems :
          \E ch \in {PHYSICS_CHAPTERS_LIST[1], PHYSICS_CHAPTERS_LIST[4]} :
             ReviewEdit(f, i, ch)

Spec == Init /\ [][Next]_vars

\* One call of parse_with_gemini, for every argument and every answer.
InitParse ==
    /\ InitEnv
    /\ file_queue = [f \in Files |-> NotQueued]
    /\ cloud_files = [f \in Files |-> "absent"]
    /\ InitCall
    /\ InitBank
    /\ InitFn

NextParse ==
    \/ \E ft \in {"pdf", "docx", "txt"} :
         \E n \in 0..(IF ft = "pdf" THEN MaxParsePages ELSE MaxDocxImages) :
           \E o \in BOOLEAN :
           \E key \in {"", "key"} : \E target \in TargetChoices(ft) :
              DirectCall(Document(n, o), ft, key, target)
    \/ \E r \in ParseResponses : ModelReturns(r)
    \/ ParseStep

SpecParse == InitParse /\ [][NextParse]_vars

\* The session and the extraction at rest, with every package installed.
AtRest ==
    /\ HAS_GENAI = TRUE
    /\ HAS_PDF2IMAGE = TRUE
    /\ HAS_DOCX = TRUE
    /\ file_queue = [f \in Files |-> NotQueued]
    /\ cloud_files = [f \in Files |-> "absent"]
    /\ InitCall
    /\ InitBank

\* The calls of crop_image: an image, a box, the two paddings of the
\* extraction and the one of the full-width scenario.
CropCalls ==
    [original_img : {ScenarioImage, 1}, box_2d : Boxes \cup {Box(<<100, 300, 200, 700>>)},
     force_full_width : BOOLEAN, padding_y : {5, 50, 100}]

\* crop_image(original_img, box_2d, force_full_width, padding_y)
CallCrop ==
    /\ fn_ret = <<>>
    /\ fn_ret' = <<crop_image(fn_args.original_img, fn_args.box_2d,
                              fn_args.force_full_width, fn_args.padding_y)>>
    /\ UNCHANGED <<envVars, appVars, pc, argVars, pageVars, loopVars, outVars, bankVars, fn_args>>

\* One call of crop_image, for every argument.
InitCrop ==
    /\ AtRest
    /\ fn_args \in CropCalls
    /\ fn_ret = <<>>

SpecCrop == InitCrop /\ [][CallCrop]_vars

\* A session on one PDF of one page that an earlier session uploaded, from
\* its recognition to the question bank.
\* The model answers with text that is no JSON, or with an array of group
\* questions that have a diagram.
BankFile == [stem |-> "exam", ext |-> "pdf"]
BankResponses ==
    {Response("garbage", <<>>, <<>>, <<>>, <<"w">>)}
        \cup {Array(items) :
                items \in SeqsUpTo({With([BaseItem EXCEPT !.type = "Group"],
                                         "box_2d", Box(<<100, 200, 300, 400>>))},
                                   MaxAppItems)}

InitBankSession ==
    /\ HAS_GENAI = TRUE
    /\ HAS_PDF2IMAGE = TRUE
    /\ HAS_DOCX = TRUE
    /\ file_queue = [f \in Files |-> NotQueued]
    /\ cloud_files = [f \in Files |-> IF f = BankFile THEN "unrecognized" ELSE "absent"]
    /\ InitCall
    /\ InitBank
    /\ InitFn

NextBank ==
    \/ Recognize(BankFile, Document(1, TRUE), "key")
    \/ \E r \in BankResponses : ModelReturns(r)
    \/ ParseStep
    \/ ProcessReturn
    \/ Import(BankFile, "A")
    \/ \E i \in 1..MaxPool : BankSave(i, "B")
    \/ \E i \in 1..MaxPool : BankDelete(i)

SpecBank == InitBankSession /\ [][NextBank]_vars

\* The texts of a file: each line is given by the number it starts with, 0
\* for a line that starts with no number.
RawCalls ==
    [file_obj : SeqsUpTo({0, 1, 2, 21}, MaxLines), file_type : {"pdf", "docx"},
     use_ocr : BOOLEAN]

\* parse_raw_file(file_obj, file_type, use_ocr)
CallParseRaw ==
    /\ fn_ret = <<>>
    /\ fn_ret' = <<parse_raw_file(fn_args.file_obj, fn_args.file_type,
                                  fn_args.use_ocr)>>
    /\ UNCHANGED <<envVars, appVars, pc, argVars, pageVars, loopVars, outVars, bankVars, fn_args>>

\* One call of parse_raw_file, for every text.
InitRaw ==
    /\ AtRest
    /\ fn_args \in RawCalls
    /\ fn_ret = <<>>

SpecRaw == InitRaw /\ [][CallParseRaw]_vars

\* Questions as the application can hold them: made by Question.__init__,
\* with or without a sub-question.
SubQuestions ==
    {Question("Single", <<"q">>, opts, "A", NoneValue, "src", "ch1", unit,
              "q2", "q1", FALSE, <<>>, NoneValue, NoneValue, "q9") :
        opts \in {<<>>, << <<"a">> >>}, unit \in {"", "u1"}}
QuestionPool ==
    {Question(type, <<"q">>, opts, answer, image, "src", "ch1", unit, "q1",
              NoneValue, Len(subs) > 0, subs, url, file, "q9") :
        type \in {"Single", "Group"}, opts \in {<<>>, << <<"a">> >>},
        answer \in {NoneValue, "", "A"}, image \in {NoneValue, "img"},
        unit \in {"", "u1"}, url \in {NoneValue, "url"},
        file \in {NoneValue, "f1"},
        subs \in {<<>>} \cup {<<sub>> : sub \in SubQuestions}}

\* Question.from_dict(q.to_dict())
CallRoundTrip ==
    /\ fn_ret = <<>>
    /\ \E new_id \in {"q9"} :
          fn_ret' = <<from_dict(to_dict(fn_args.q), new_id)>>
    /\ UNCHANGED <<envVars, appVars, pc, argVars, pageVars, loopVars, outVars, bankVars, fn_args>>

\* One round trip, for every question.
InitQuestion ==
    /\ AtRest
    /\ fn_args \in [q : QuestionPool]
    /\ fn_ret = <<>>

SpecQuestion == InitQuestion /\ [][CallRoundTrip]_vars

\* ------------------------------------------------------------------- claims
\* A call has returned (its result is what the caller gets).
Returned == pc = "return"

\* The result is the aggregated batch error: the recorded messages joined.
AggregatedError ==
    /\ result.kind = "error"
    /\ errors # <<>>
    /\ result.error = JoinMessages(errors)

\* C1: a returned call reports the aggregated batch error exactly when no
\* candidate was produced and at least one batch error was recorded; with no
\* candidate and no recorded error a call that reached its batches returns
\* the empty list.
C1_AggregatedErrorIffNoCandidate ==
    Returned =>
        /\ AggregatedError <=> (all_candidates = <<>> /\ errors # <<>>)
        /\ (batches # <<>> /\ all_candidates = <<>> /\ errors = <<>>)
               => result = ListResult(<<>>)
        /\ (batches # <<>> /\ all_candidates # <<>>) => result.kind = "list"

\* C1 witness: a call whose only batch recorded an error and produced nothing.
C1_Witness ==
    /\ Returned
    /\ calls # <<>>
    /\ all_candidates = <<>>
    /\ errors = <<EmptyResponse>>
    /\ result = ErrorResult(EmptyResponse)

\* The calls made for batch b, in the order they were made.
CallsOf(b) == SelectSeq(calls, LAMBDA c : c.batch = b)
AllModelsFailed(b) ==
    /\ Len(CallsOf(b)) = Len(candidate_models)
    /\ \A i \in 1..Len(CallsOf(b)) : ~CallsOf(b)[i].ok
BatchFailures == {BatchFailed(FailureOf(m)) : m \in Range(candidate_models)}

\* C3: for each batch the models are called in list order, a call that
\* returns is the last call of its batch, and a "Batch failed" error is
\* recorded only when all models failed, with the last model's failure.
C3_ModelsTriedInOrder ==
    /\ \A b \in 1..Len(batches) :
         LET cs == CallsOf(b)
         IN  /\ Len(cs) <= Len(candidate_models)
             /\ \A i \in 1..Len(cs) :
                  /\ cs[i].model = candidate_models[i]
                  /\ cs[i].ok => i = Len(cs)
    /\ \A c \in Range(calls) : c.batch \in 1..Len(batches)
    /\ \A i \in 1..Len(errors) :
         errors[i] \in BatchFailures =>
            /\ errors[i] =
                 BatchFailed(FailureOf(candidate_models[Len(candidate_models)]))
            /\ \E b \in 1..Len(batches) : AllModelsFailed(b)
    /\ \A b \in 1..Len(batches) :
         (AllModelsFailed(b) /\ (batch_idx > b \/ pc \in {"final", "return"}))
            => /\ \E i \in 1..Len(errors) : errors[i] \in BatchFailures
               /\ Len(batches) = 1 => all_candidates = <<>>

\* C3 witness: the first two models failed, the third returned and its
\* answer was used for a candidate; the fourth was never called.
C3_Witness ==
    /\ Returned
    /\ Len(calls) = 3
    /\ ~calls[1].ok /\ ~calls[2].ok /\ calls[3].ok
    /\ calls[3].model = candidate_models[3]
    /\ all_candidates # <<>>

\* One of the configuration errors holds for the running call.
Misconfigured ==
    \/ ~HAS_GENAI
    \/ api_key = ""
    \/ file_type \notin {"pdf", "docx"}
    \/ file_type = "pdf" /\ ~HAS_PDF2IMAGE
    \/ file_type = "docx" /\ ~HAS_DOCX

\* C4: a misconfigured call never gets past its checks: no model call, no
\* candidate, and what it returns is an error.
C4_ConfigErrorsAbort ==
    Misconfigured =>
        /\ pc \in {"idle", "config", "return"}
        /\ calls = <<>>
        /\ all_candidates = <<>>
        /\ Returned => result.kind = "error"

\* C4 witness: a PDF call with a key and genai but no pdf2image returned.
C4_Witness ==
    /\ Returned
    /\ HAS_GENAI /\ api_key # "" /\ file_type = "pdf" /\ ~HAS_PDF2IMAGE
    /\ result.kind = "error"
    /\ calls = <<>>

\* The candidates the loop body appends for a parsed array, in the order of
\* their appends (the loop ends at an element that raises).
RECURSIVE AppendedFrom(_)
AppendedFrom(items) ==
    IF items = <<>> THEN <<>>
    ELSE LET out == ItemOutcome(Head(items), batches[1], file_type)
         IN  CASE out.act = "raise" -> <<>>
               [] out.act = "skip" -> AppendedFrom(Tail(items))
               [] OTHER -> <<out.cand>> \o AppendedFrom(Tail(items))

Count(seq, x) == Cardinality({i \in 1..Len(seq) : seq[i] = x})
IsPermutation(a, b) ==
    /\ Len(a) = Len(b)
    /\ \A x \in Range(a) \cup Range(b) : Count(a, x) = Count(b, x)

\* The order of two reported numbers, where both are numbers.
Numeric(n) == n.t \in {"int", "digits", "float"}
Tenths(n) == IF n.t = "float" THEN n.v ELSE 10 * n.v
NonDecreasing(list) ==
    \A i \in 1..Len(list) : \A j \in i..Len(list) :
        (Numeric(list[i].number) /\ Numeric(list[j].number))
            => Tenths(list[i].number) <= Tenths(list[j].number)

\* C6 as stated: whatever the model answered, the returned list is in
\* non-decreasing order of the question number and holds every appended
\* candidate exactly once.
C6_SortedForEveryOutput ==
    (Returned /\ result.kind = "list") =>
        /\ NonDecreasing(result.list)
        /\ IsPermutation(result.list, AppendedFrom(data))

\* C6 amended: the returned list always holds every appended candidate
\* exactly once (duplicates of a number included); it is in non-decreasing
\* order of int(number), equal keys in extraction order, when int() accepts
\* every number, and is the extraction order itself when it rejects one.
C6_SortedWhenNumbersConvert ==
    (Returned /\ result.kind = "list") =>
        /\ IsPermutation(result.list, AppendedFrom(data))
        /\ (\A i \in 1..Len(result.list) : ~IntRaises(result.list[i].number))
              => /\ \A i \in 1..Len(result.list) : \A j \in i..Len(result.list) :
                      IntOf(result.list[i].number) <= IntOf(result.list[j].number)
                 /\ \A k \in {IntOf(c.number) : c \in Range(result.list)} :
                      SelectSeq(result.list, LAMBDA c : IntOf(c.number) = k)
                        = SelectSeq(AppendedFrom(data), LAMBDA c : IntOf(c.number) = k)
        /\ (\E i \in 1..Len(result.list) : IntRaises(result.list[i].number))
              => result.list = AppendedFrom(data)

\* C6 witness: three candidates extracted as 2, 1, 1 came back as 1, 1, 2.
C6_Witness ==
    /\ Returned
    /\ result.kind = "list"
    /\ Len(result.list) = 3
    /\ AppendedFrom(data)[1].number = JInt(2)
    /\ AppendedFrom(data)[2].number = JDigits(1)
    /\ AppendedFrom(data)[3].number = JInt(1)
    /\ result.list[1].number = JDigits(1)
    /\ result.list[2].number = JInt(1)
    /\ result.list[3].number = JInt(2)

\* The stem and the options of a candidate as one text, as the filter joins
\* them but in the case they were written in.
CombinedText(c) == c.content \o <<" ">> \o JoinText(c.options, <<" ">>)
HasExcludeKeyword(text) ==
    \E k \in 1..Len(EXCLUDE_KEYWORDS) : Contains(text, EXCLUDE_KEYWORDS[k])
ItemText(item) ==
    Get(item, "content", <<>>) \o <<" ">> \o JoinText(Get(item, "options", <<>>), <<" ">>)

\* C8 as stated: no returned candidate has an exclude keyword in its stem or
\* its options, and an array of objects, dropped ones included, records no
\* error.
C8_ExcludedItemsDropped ==
    Returned =>
        /\ \A c \in Range(result.list) : ~HasExcludeKeyword(CombinedText(c))
        /\ (data # <<>> /\ \A i \in 1..Len(data) : data[i].obj) => errors = <<>>

\* C9 as stated: an item with an exclude keyword and the rescue keyword
\* Newton is returned as a candidate.
C9_RescueKeepsItem ==
    (Returned /\ \A i \in 1..Len(data) : data[i].obj) =>
        \A i \in 1..Len(data) :
            (HasExcludeKeyword(ItemText(data[i])) /\ Contains(ItemText(data[i]), Newton))
                => \E c \in Range(result.list) : c.content = data[i].content

\* The stem holds the multi-select cue: "ying xuan" with a later "xiang".
StemCue(content) ==
    \E i \in 1..Len(content) : \E j \in 1..Len(content) :
        /\ i + 1 < j
        /\ content[i] = "ying"
        /\ content[i + 1] = "xuan"
        /\ content[j] = "xiang"

\* C10 as stated: a returned candidate whose stem holds the cue is Multi,
\* with or without options.
C10_CueMeansMulti ==
    Returned =>
        \A c \in Range(result.list) : StemCue(c.content) => c.q_type = "Multi"

\* C10 amended: a returned candidate whose stem holds the cue is Multi when
\* its list of options is not empty and Fill when it is, whatever type the
\* model reported.
C10_CueMeansMultiOrFill ==
    Returned =>
        \A c \in Range(result.list) :
            StemCue(c.content) =>
                c.q_type = IF c.options # <<>> THEN "Multi" ELSE "Fill"

\* C10 witness: an item with the cue and an option, reported Single, was
\* returned as Multi.
C10_Witness ==
    /\ Returned
    /\ Len(data) = 1
    /\ data[1].obj
    /\ data[1].type = "Single"
    /\ "type" \in data[1].keys
    /\ Len(result.list) = 1
    /\ StemCue(result.list[1].content)
    /\ result.list[1].options # <<>>
    /\ result.list[1].q_type = "Multi"

\* The pages of the k-th batch of a document of n pages.
PagesOfBatch(k, n) ==
    {p \in 1..n : (k - 1) * BatchSize < p /\ p <= k * BatchSize}

\* C5 as stated: no model call receives more page images than the batch
\* size.
C5_CallsWithinBatchSize ==
    \A i \in 1..Len(calls) : Len(calls[i].images) <= BatchSize

\* C2 as stated: the application extracts a PDF of three batches and every
\* model call that holds a page of batch 2 fails; then every page of batches
\* 1 and 3 went into a call that returned, and one error is recorded.
C2_BatchErrorIsolation ==
    LET n == Len(source_images)
    IN  ( /\ Returned
          /\ caller # NoFile
          /\ file_type = "pdf"
          /\ n = 2 * BatchSize + 1
          /\ calls # <<>>
          /\ \A i \in 1..Len(calls) :
                (Range(calls[i].images) \cap PagesOfBatch(2, n) # {})
                    => ~calls[i].ok )
        => /\ \A p \in PagesOfBatch(1, n) \cup PagesOfBatch(3, n) :
                \E i \in 1..Len(calls) :
                    calls[i].ok /\ p \in Range(calls[i].images)
           /\ Len(errors) = 1
           /\ result.kind = "list"

\* C7: the predicted chapter of every candidate, in the running call, in its
\* result and in the queue, is a member of PHYSICS_CHAPTERS_LIST.
C7_ChapterInList ==
    LET InList(cands) ==
            \A i \in 1..Len(cands) :
                cands[i].predicted_chapter \in Range(PHYSICS_CHAPTERS_LIST)
    IN  /\ InList(all_candidates)
        /\ InList(result.list)
        /\ \A f \in Files : InList(file_queue[f].result)

\* C7 witness: a file whose candidate was moved to another chapter in the
\* review form is recognized again, and the model's unknown chapter came back
\* as the Unclassified entry.
C7_Witness ==
    /\ Returned
    /\ caller # NoFile
    /\ Len(file_queue[caller].result) = 1
    /\ file_queue[caller].result[1].predicted_chapter = PHYSICS_CHAPTERS_LIST[4]
    /\ Len(data) = 1
    /\ data[1].chapter \notin Range(PHYSICS_CHAPTERS_LIST)
    /\ Len(result.list) = 1
    /\ result.list[1].predicted_chapter = PHYSICS_CHAPTERS_LIST[1]

\* A call that parsed an array of one object and returned one candidate.
OneItem ==
    /\ Returned
    /\ Len(data) = 1
    /\ data[1].obj
    /\ Len(result.list) = 1
ReportedType(item) == IF "type" \in item.keys THEN item.type ELSE "Single"
\* The text holds "ying xuan" with "xiang", "er_two" or "san".
TextCue(text) ==
    /\ Contains(text, <<"ying", "xuan">>)
    /\ \E w \in {"xiang", "er_two", "san"} : Contains(text, <<w>>)

\* C11 as stated: a candidate with no options whose reported type is not
\* Group is Fill, and an item reported as Group never becomes Fill.
C11_FillExactlyForOptionless ==
    OneItem =>
        /\ (result.list[1].options = <<>> /\ ReportedType(data[1]) # "Group")
              => result.list[1].q_type = "Fill"
        /\ ReportedType(data[1]) = "Group" => result.list[1].q_type # "Fill"

\* C11 amended: a candidate with no options whose reported type is not Group
\* is Fill; an item reported as Group becomes Fill exactly when it has no
\* options and its stem holds the multi-select cue, and stays Group when it
\* has no options and no cue.
C11_FillUnlessPlainGroup ==
    OneItem =>
        /\ (result.list[1].options = <<>> /\ ReportedType(data[1]) # "Group")
              => result.list[1].q_type = "Fill"
        /\ ReportedType(data[1]) = "Group" =>
              /\ result.list[1].q_type = "Fill"
                    <=> (result.list[1].options = <<>>
                         /\ TextCue(result.list[1].content))
              /\ (result.list[1].options = <<>> /\ ~TextCue(result.list[1].content))
                    => result.list[1].q_type = "Group"

\* C11 witness: an item reported as Single with no options came back as Fill.
C11_Witness ==
    /\ OneItem
    /\ "type" \in data[1].keys
    /\ data[1].type = "Single"
    /\ "options" \in data[1].keys
    /\ result.list[1].options = <<>>
    /\ result.list[1].q_type = "Fill"

\* C12 as stated: a returned candidate with sub-questions has type Group.
C12_SubQuestionsOnlyOnGroups ==
    Returned =>
        \A c \in Range(result.list) : c.sub_questions # <<>> => c.q_type = "Group"

\* C13 as stated: the page of a PDF candidate is page
\* start_offset + page_index of the document when page_index is an integer
\* inside the batch, and the first page of the batch when page_index is
\* missing, negative, beyond the batch or no integer; it is never absent.
C13_PageResolution ==
    (OneItem /\ file_type = "pdf") =>
        LET idx == data[1].page_index
            inside == /\ "page_index" \in data[1].keys
                      /\ idx.t = "int"
                      /\ 0 <= idx.v
                      /\ idx.v < Len(batches[1])
            page == result.list[1].full_page_bytes
        IN  /\ page.kind = "page"
            /\ inside => page.page = source_images[start_offset + idx.v + 1]
            /\ ~inside => page.page = batches[1][1]

\* C14: every candidate of a PDF carries a whole page of the processed range
\* as its full page image, also when a crop returned nothing or raised; for
\* an integer page_index inside the batch it is that page of the batch.
C14_FullPageAlwaysKept ==
    (Returned /\ file_type = "pdf") =>
        /\ \A c \in Range(result.list) :
              /\ c.full_page_bytes.kind = "page"
              /\ c.full_page_bytes.page \in Range(batches[1])
        /\ (OneItem /\ "page_index" \in data[1].keys /\ data[1].page_index.t = "int"
              /\ 0 <= data[1].page_index.v /\ data[1].page_index.v < Len(batches[1]))
              => result.list[1].full_page_bytes.page
                    = batches[1][data[1].page_index.v + 1]

\* C14 witness: the diagram crop of a PDF item raised, no crop was stored and
\* the full page image is there.
C14_Witness ==
    /\ OneItem
    /\ file_type = "pdf"
    /\ "box_2d" \in data[1].keys
    /\ data[1].box_2d = BadBox
    /\ result.list[1].image_bytes = NoBytes
    /\ result.list[1].ref_image_bytes = NoBytes
    /\ result.list[1].full_page_bytes.kind = "page"

\* No whole-question box was returned: the field is absent, null or empty.
NoQuestionBox(item) ==
    \/ "full_question_box_2d" \notin item.keys
    \/ item.full_question_box_2d = NoBox
    \/ item.full_question_box_2d = Box(<<>>)

\* C15 as stated: the reference image of a PDF candidate (whose diagram crop
\* did not raise) is the full page image when no whole-question box was
\* returned, and a crop of the full width of the page when a box of four
\* numbers was.
C15_ReferenceImage ==
    (OneItem /\ file_type = "pdf" /\ data[1].box_2d # BadBox) =>
        LET box == data[1].full_question_box_2d
            ref == result.list[1].ref_image_bytes
        IN  /\ NoQuestionBox(data[1])
                => /\ ref.kind = "page"
                   /\ ref = result.list[1].full_page_bytes
            /\ (~NoQuestionBox(data[1]) /\ box.kind = "list" /\ Len(box.v) = 4
                  /\ 0 <= box.v[1] /\ box.v[1] < box.v[3] /\ box.v[3] <= 1000)
                => /\ ref.kind = "crop"
                   /\ ref.rect[1] = 0
                   /\ ref.rect[3] = 1000 * PageWidth

\* An element of the array every field of which is as the prompt asks and
\* that the exclude filter lets through.
WellFormed(item) ==
    /\ item.obj
    /\ {"number", "type", "content", "options", "chapter"} \subseteq item.keys
    /\ ~HasExcludeKeyword(ItemText(item))
    /\ ~HasExcludeKeyword(Lower(ItemText(item)))

\* C18 as stated: every well-formed item of a parsed array is returned as a
\* candidate, whatever malformed elements stand before or after it.
C18_MalformedItemsIsolated ==
    Returned =>
        /\ \A i \in 1..Len(data) :
              WellFormed(data[i]) =>
                  \E c \in Range(result.list) :
                      c.content = data[i].content /\ c.number = data[i].number
        /\ Len(result.list) >= Cardinality({i \in 1..Len(data) : WellFormed(data[i])})

\* A box of four numbers that is degenerate after padding and clamping.
Degenerate(v, force_full_width, padding_y) ==
    \/ Min(1000, v[3] + padding_y) <= Max(0, v[1] - padding_y)
    \/ ~force_full_width /\ Min(1000, v[4] + 10) <= Max(0, v[2] - 10)
\* A box crop_image has nothing to cut for.
NothingToCrop(box, force_full_width, padding_y) ==
    \/ box.kind = "null"
    \/ box.kind = "list" /\ Len(box.v) # 4
    \/ box.kind = "list" /\ Len(box.v) = 4
          /\ Degenerate(box.v, force_full_width, padding_y)

\* C19: for a box that is null, has not exactly four entries or is degenerate
\* after padding and clamping, crop_image returns None and does not raise: the
\* candidate has no diagram image, and the statements after the call ran (the
\* reference image of an item without a whole-question box is the full page);
\* likewise the reference image is None for such a whole-question box.
C19_DegenerateBoxIsAbsent ==
    (OneItem /\ file_type = "pdf") =>
        /\ ("box_2d" \in data[1].keys /\ NothingToCrop(data[1].box_2d, FALSE, 5))
              => /\ result.list[1].image_bytes = NoBytes
                 /\ "full_question_box_2d" \notin data[1].keys
                       => result.list[1].ref_image_bytes
                             = result.list[1].full_page_bytes
        /\ ("full_question_box_2d" \in data[1].keys
              /\ NothingToCrop(data[1].full_question_box_2d, TRUE, 100))
              => result.list[1].ref_image_bytes = NoBytes

\* C19 witness: a diagram box whose bottom lies above its top gave no image
\* and the reference image was set after it.
C19_Witness ==
    /\ OneItem
    /\ file_type = "pdf"
    /\ "box_2d" \in data[1].keys
    /\ data[1].box_2d = Box(<<300, 200, 100, 400>>)
    /\ "full_question_box_2d" \notin data[1].keys
    /\ result.list[1].image_bytes = NoBytes
    /\ result.list[1].ref_image_bytes.kind = "page"

\* C20 as stated: for every box of four numbers crop_image was called with,
\* the padded ymin and the padded ymax lie within 0..1000.
C20_PaddedWithinRange ==
    (OneItem /\ file_type = "pdf") =>
        /\ ("box_2d" \in data[1].keys /\ data[1].box_2d.kind = "list"
              /\ Len(data[1].box_2d.v) = 4)
              => /\ PaddedYMin(data[1].box_2d.v[1], 5) \in 0..1000
                 /\ PaddedYMax(data[1].box_2d.v[3], 5) \in 0..1000
        /\ ("full_question_box_2d" \in data[1].keys
              /\ data[1].full_question_box_2d.kind = "list"
              /\ Len(data[1].full_question_box_2d.v) = 4)
              => /\ PaddedYMin(data[1].full_question_box_2d.v[1], 100) \in 0..1000
                 /\ PaddedYMax(data[1].full_question_box_2d.v[3], 100) \in 0..1000

\* C16 as stated: a response that is a single JSON object is parsed to the
\* one-element list holding that object, without an error.
C16_SingleObjectNormalized ==
    (Returned /\ response.text = "object") =>
        /\ data = response.items
        /\ errors = <<>>

\* The text from the first "[" to the last "]".
FirstToLast(t) ==
    LET opens == {i \in 1..Len(t) : t[i] = "["}
        closes == {i \in 1..Len(t) : t[i] = "]"}
    IN  SubSeq(t, CHOOSE i \in opens : \A j \in opens : i <= j,
                  CHOOSE i \in closes : \A j \in closes : j <= i)

Fences(prose) == SelectSeq(prose, LAMBDA x : x \in {"fence_json", "fence"})

\* The prose holds no bracket, and either no fence marker or one that opens a
\* fence before the array and one that closes it after the array.
PlainWrapping(r) ==
    /\ {"[", "]"} \cap (Range(r.pre) \cup Range(r.post)) = {}
    /\ \/ Fences(r.pre) = <<>> /\ Fences(r.post) = <<>>
       \/ Len(Fences(r.pre)) = 1 /\ Fences(r.post) = <<"fence">>

ScenarioBox == Box(<<100, 300, 200, 700>>)

\* A value of the 0-1000 scale brought into the scale.
Clamped(v) == Min(1000, Max(0, v))

\* crop_image was called with a box of four numbers and returned a crop.
CropReturned ==
    /\ fn_ret # <<>>
    /\ fn_ret[1].bytes.kind = "crop"

\* C21: a crop made with force_full_width spans the whole width of the image
\* whatever xmin and xmax are, and one made without it spans xmin - 10 to
\* xmax + 10, clamped and scaled by width / 1000; its rows are ymin - padding_y
\* to ymax + padding_y, clamped and scaled by height / 1000.  For the image of
\* 1000 x 2000, the box [100, 300, 200, 700] and padding 50 the full-width crop
\* is the whole width and the rows 50 to 250 of the 0-1000 scale.
C21_CropSpan ==
    CropReturned =>
        LET v == fn_args.box_2d.v
            size == ImageSize(fn_args.original_img)
            rect == fn_ret[1].bytes.rect
        IN  /\ fn_ret[1].bytes.page = fn_args.original_img
            /\ fn_args.force_full_width => rect[1] = 0 /\ rect[3] = 1000 * size[1]
            /\ ~fn_args.force_full_width =>
                  /\ rect[1] = Clamped(v[2] - 10) * size[1]
                  /\ rect[3] = Clamped(v[4] + 10) * size[1]
            /\ rect[2] = Clamped(v[1] - fn_args.padding_y) * size[2]
            /\ rect[4] = Clamped(v[3] + fn_args.padding_y) * size[2]
            /\ (/\ fn_args.original_img = ScenarioImage
                /\ fn_args.box_2d = ScenarioBox
                /\ fn_args.force_full_width
                /\ fn_args.padding_y = 50)
                  => rect = <<0, 50 * 2000, 1000 * 1000, 250 * 2000>>

\* C21 witness: the full-width crop of the scenario was made.
C21_Witness ==
    /\ CropReturned
    /\ fn_args.original_img = ScenarioImage
    /\ fn_args.box_2d = ScenarioBox
    /\ fn_args.force_full_width
    /\ fn_args.padding_y = 50
    /\ fn_ret[1].bytes.rect[3] - fn_ret[1].bytes.rect[1] = 1000 * 1000

\* The leading numbers of the lines that start with one, in text order.
Anchors(text) == SelectSeq(text, LAMBDA n : n > 0)

\* The sets of anchor positions that form a chain: each number is 1 to 5
\* above the one before it in the set.
Chains(anchors) ==
    {I \in SUBSET (1..Len(anchors)) :
        \A i, j \in I :
            (i < j /\ \A k \in I : ~(i < k /\ k < j))
                => anchors[j] - anchors[i] \in 1..5}

\* The numbers of the anchors at the positions I, in text order.
RECURSIVE ChainNumbers(_, _, _)
ChainNumbers(anchors, I, i) ==
    IF i > Len(anchors) THEN <<>>
    ELSE (IF i \in I THEN <<anchors[i]>> ELSE <<>>)
             \o ChainNumbers(anchors, I, i + 1)

\* C22 as stated: parse_raw_file returns one candidate per anchor of a
\* longest chain of leading-number anchors whose consecutive numbers differ
\* by 1 to 5, in chain order (for lines numbered 1, 21, 2 the candidates 1 and
\* 2), and an empty list for a text without anchors.
C22_LongestChainSegmented ==
    fn_ret # <<>> =>
        LET anchors == Anchors(fn_args.file_obj)
            numbers == [i \in 1..Len(fn_ret[1]) |-> fn_ret[1][i].number]
        IN  \E I \in Chains(anchors) :
               /\ \A J \in Chains(anchors) : Cardinality(J) <= Cardinality(I)
               /\ numbers = ChainNumbers(anchors, I, 1)

\* C27 as stated: Question.from_dict(q.to_dict()) has the value of q in
\* every attribute, the unit and the sub-questions included.
C27_RoundTrip ==
    fn_ret # <<>> => fn_ret[1] = fn_args.q

\* C24 as stated: every file in the queue has a type parse_with_gemini
\* supports, 'pdf' or 'docx', whether it was queued by an upload or by a
\* download, and no recognition of a queued file returns the error of an
\* unsupported document type.
C24_QueuedTypeSupported ==
    /\ \A f \in Files :
          file_queue[f].status # "absent" => file_queue[f].type \in {"pdf", "docx"}
    /\ (Returned /\ caller # NoFile) => result.error # "only PDF or Word"

\* The entry of f was looked at by process_single_file and a call is running.
Processing(f) == pc # "idle" /\ caller = f

\* One step of the status lifecycle.
C23_Step ==
    /\ \A f \in Files :
          \* the call starts on an entry marked 'processing'
          /\ (~Processing(f) /\ Processing(f)')
                => file_queue'[f].status = "processing"
          \* the call has returned: done with the result, or error
          /\ (Processing(f) /\ pc = "return" /\ pc' = "idle") =>
                IF result.kind = "error"
                THEN /\ file_queue'[f] = [file_queue[f] EXCEPT
                            !.status = "error", !.error_msg = result.error]
                     /\ cloud_files' = cloud_files
                ELSE /\ file_queue'[f] = [file_queue[f] EXCEPT
                            !.status = "done", !.result = result.list]
                     /\ cloud_files'[f] = "recognized"
          \* candidates are edited only in a file that is 'done'
          /\ (pc = "idle" /\ pc' = "idle" /\ file_queue'[f] # file_queue[f]
                /\ file_queue[f].status # "absent")
                => file_queue[f].status = "done"

\* C23: a file is marked 'processing' when process_single_file starts on it
\* and stays so during the call; once parse_with_gemini has returned it is
\* 'done' (result stored, the cloud record marked recognised) or 'error'
\* (message stored, earlier result kept) and no file is 'processing' between
\* calls; for a name that is not in the queue process_single_file changes
\* nothing; only a 'done' file is edited in the review tab.
C23_StatusLifecycle ==
    /\ [](\A f \in Files :
             /\ Processing(f) => file_queue[f].status = "processing"
             /\ pc = "idle" => file_queue[f].status # "processing"
             /\ file_queue[f].status = "absent"
                   => MarkProcessing(file_queue, f) = file_queue)
    /\ [][C23_Step]_vars

\* C23 witness: a file recognised before (its result is kept) is in status
\* 'error' after a later call on it failed.
C23_Witness ==
    /\ pc = "idle"
    /\ \E f \in Files :
          /\ file_queue[f].status = "error"
          /\ file_queue[f].error_msg # ""
          /\ file_queue[f].result # <<>>
          /\ cloud_files[f] = "recognized"

\* The ids of the questions of the pool and of the questions collection.
PoolIds == {question_pool[i].id : i \in 1..Len(question_pool)}
CloudIds == {d.id : d \in questions}

\* C25 as stated: between two script runs the pool of the session holds the
\* ids of the questions collection, after any import, edit and delete.
C25_PoolMatchesCloud ==
    pc = "idle" => PoolIds = CloudIds

\* One step of the import lifecycle.
C26_Step ==
    /\ \A f \in Files :
          LET candidates == Rendered(file_queue[f].result)
              n == Len(question_pool)
          IN  \* the import: one question per candidate, appended and saved
              /\ (file_queue[f].status # "imported"
                    /\ file_queue'[f].status = "imported") =>
                    /\ file_queue[f].status = "done"
                    /\ Len(question_pool') = n + Len(candidates)
                    /\ SubSeq(question_pool', 1, n) = question_pool
                    /\ \A i \in 1..Len(candidates) :
                          LET q == question_pool'[n + i]
                          IN  /\ q.type = candidates[i].q_type
                              /\ q.content = candidates[i].content
                              /\ q.options = candidates[i].options
                              /\ q.chapter = candidates[i].predicted_chapter
                              /\ q.id \notin PoolIds
                              /\ q.id \in {d.id : d \in questions'}
                              /\ \A j \in 1..Len(candidates) :
                                    question_pool'[n + j].id = q.id => j = i
              \* a file comes (back) to 'done' only by a recognition run
              /\ (file_queue[f].status # "done" /\ file_queue'[f].status = "done")
                    => pc = "return" /\ caller = f /\ result.kind = "list"
    \* the pool grows by an import only
    /\ Len(question_pool') # Len(question_pool) =>
          \E f \in Files : /\ file_queue[f].status = "done"
                           /\ file_queue'[f].status = "imported"

\* C26: confirming the import of a file creates one Question per candidate,
\* appends each to the pool (and saves it) and marks the file 'imported'; the
\* file was 'done' before, the pool grows in no other way, and a file becomes
\* 'done' only when a recognition run returns its candidates: the candidates
\* of one run are imported at most once.
C26_ImportedOncePerRun ==
    [][C26_Step]_vars

\* C26 witness: the file was imported, recognised again and imported again;
\* the pool holds one question of each import.
C26_Witness ==
    /\ pc = "idle"
    /\ \E f \in Files : file_queue[f].status = "imported"
                          /\ Len(file_queue[f].result) = 1
    /\ Len(question_pool) = 2
    /\ question_pool[1].id # question_pool[2].id

====
